---- MODULE Spec2Model ----
(***************************************************************************)
(* Net worth projection calculator (src/app.py).                           *)
(*                                                                         *)
(* calculate_net_worth_projection is modelled as a loop that is stepped    *)
(* one iteration at a time (specification Spec); main, with its widgets,   *)
(* its call of the projection and its sensitivity sweep, is modelled by     *)
(* specification MainSpec.                                                 *)
(*                                                                         *)
(* Python floats are modelled by exact rationals [n |-> numerator,         *)
(* d |-> denominator > 0] in lowest terms.  The inputs of Spec are small    *)
(* dyadic rationals (k/2, k/8, k/128), for which binary floating point      *)
(* arithmetic is itself exact, so that the model computes what the code    *)
(* computes.  The relative error of 2^-53 that floats add on other inputs   *)
(* (the percentages of main) is not modelled; the widget values of MainSpec *)
(* are chosen so that no rounded value depends on it.  round(x, 2) is       *)
(* modelled by what it does: round to the nearest hundredth, ties to even.  *)
(***************************************************************************)
EXTENDS Integers, Sequences, FiniteSets, TLC

VARIABLES
    a,                  \* the arguments of calculate_net_worth_projection
    pc,                 \* position in calculate_net_worth_projection
    years,              \* list(range(start_year, end_year + 1))
    idx,                \* position of the for loop in years (1-based)
    current_net_worth,  \* running net worth
    current_salary,     \* running salary
    data,               \* the snapshots appended so far
    w,                  \* main: the values of the input widgets
    mpc,                \* main: position in main
    df,                 \* main: the projection of line 181
    growth_i,           \* main: position of the outer sweep loop in growth_rates
    tax_i,              \* main: position of the inner sweep loop in tax_rates
    row_data,           \* main: the row being filled
    sensitivity_data,   \* main: the rows filled so far
    shown               \* main: what has been displayed, in order

fvars == <<a, pc, years, idx, current_net_worth, current_salary, data>>
mvars == <<w, mpc, df, growth_i, tax_i, row_data, sensitivity_data, shown>>
vars == <<a, pc, years, idx, current_net_worth, current_salary, data,
          w, mpc, df, growth_i, tax_i, row_data, sensitivity_data, shown>>

----------------------------------------------------------------------------
(* Float arithmetic, as exact rational arithmetic.                         *)

Abs(x) == IF x < 0 THEN -x ELSE x

RECURSIVE GCD(_, _)
GCD(x, y) == IF y = 0 THEN x ELSE GCD(y, x % y)

\* The rational n/d (d # 0) in lowest terms with a positive denominator.
Q(n, d) ==
    LET g == GCD(Abs(n), Abs(d))
        s == IF d < 0 THEN -1 ELSE 1
    IN  [n |-> s * (n \div g), d |-> s * (d \div g)]

Whole(k) == [n |-> k, d |-> 1]
Zero == Whole(0)
One == Whole(1)

\* x + y
Add(x, y) ==
    LET g == GCD(x.d, y.d)
    IN  Q(x.n * (y.d \div g) + y.n * (x.d \div g), (x.d \div g) * y.d)

Neg(x) == [n |-> -x.n, d |-> x.d]

\* x - y
Sub(x, y) == Add(x, Neg(y))

\* x * y
Mul(x, y) ==
    LET g1 == GCD(Abs(x.n), y.d)
        g2 == GCD(Abs(y.n), x.d)
    IN  Q((x.n \div g1) * (y.n \div g2), (x.d \div g2) * (y.d \div g1))

\* x < y, x <= y
Lt(x, y) == Sub(x, y).n < 0
Le(x, y) == Sub(x, y).n <= 0

\* p / 100 for a whole number p of percent.
Percent(p) == Q(p, 100)

\* The integer nearest to q + r/d, for 0 <= r < d: a tie (r/d = 1/2) goes to
\* the even neighbour.
RoundHalfEven(r, d, q) ==
    IF 2 * r < d THEN q
    ELSE IF 2 * r > d THEN q + 1
    ELSE IF q % 2 = 0 THEN q ELSE q + 1

\* round(x, 2): x rounded to the nearest multiple of 1/100.
Round2(x) ==
    LET ip == x.n \div x.d
        fr == 100 * (x.n % x.d)
        c  == 100 * ip + RoundHalfEven(fr % x.d, x.d, fr \div x.d)
    IN  Q(c, 100)

----------------------------------------------------------------------------
(* calculate_net_worth_projection: the body of one loop iteration.         *)

\* range(start_year, end_year): the last year is left out.
range_exclusive(start_year, end_year) ==
    [i \in 1..(end_year - start_year) |-> start_year + i - 1]

\* A range that counts down when end_year < start_year.
range_either_way(start_year, end_year) ==
    IF end_year >= start_year
    THEN [i \in 1..(end_year - start_year + 1) |-> start_year + i - 1]
    ELSE [i \in 1..(start_year - end_year + 1) |-> start_year - i + 1]

\* list(range(start_year, end_year + 1)); empty when end_year < start_year.
range(start_year, end_year) ==
    [i \in 1..(end_year - start_year + 1) |-> start_year + i - 1]

dividend_income(net_worth, args) == Mul(net_worth, args.dividend_yield)

total_income(salary, dividend) == Add(salary, dividend)

after_tax_income(total, args) == Mul(total, Sub(One, args.tax_rate))

\* The expense ratio taken for the savings ratio.
expenses_complement(after_tax, args) == Mul(after_tax, Sub(One, args.expense_ratio))

expenses(after_tax, args) == Mul(after_tax, args.expense_ratio)

\* The operands swapped.
savings_swapped(after_tax, spent) == Sub(spent, after_tax)

savings(after_tax, spent) == Sub(after_tax, spent)

\* The savings of a year that starts with the given net worth and salary.
year_savings(net_worth, salary, args) ==
    LET after_tax == after_tax_income(
            total_income(salary, dividend_income(net_worth, args)), args)
    IN  savings(after_tax, expenses(after_tax, args))

\* The dict appended for a year: the rounded copies of the year's values.
current_state(year, net_worth, salary, args) ==
    LET dividend  == dividend_income(net_worth, args)
        total     == total_income(salary, dividend)
        after_tax == after_tax_income(total, args)
        spent     == expenses(after_tax, args)
    IN  [k \in {"Year", "Net Worth", "Salary", "Dividend Income", "Total Income",
                "After-tax Income", "Expenses", "Savings"} |->
            CASE k = "Year"             -> year
              [] k = "Net Worth"        -> Round2(net_worth)
              [] k = "Salary"           -> Round2(salary)
              [] k = "Dividend Income"  -> Round2(dividend)
              [] k = "Total Income"     -> Round2(total)
              [] k = "After-tax Income" -> Round2(after_tax)
              [] k = "Expenses"         -> Round2(spent)
              [] k = "Savings"          -> Round2(savings(after_tax, spent))]

\* Growth applied to the balance before the savings are added.
update_net_worth_growth_first(net_worth, saved, args) ==
    Add(Mul(net_worth, Add(One, args.asset_growth_rate)), saved)

\* The accumulator itself rounded to 2 decimals.
update_net_worth_rounded(net_worth, saved, args) ==
    Mul(Add(Round2(net_worth), Round2(saved)), Add(One, args.asset_growth_rate))

\* current_net_worth += savings; current_net_worth *= 1 + asset_growth_rate
update_net_worth(net_worth, saved, args) ==
    Mul(Add(net_worth, saved), Add(One, args.asset_growth_rate))

\* The growth rate subtracted.
update_salary_shrinking(salary, args) == Mul(salary, Sub(One, args.salary_growth_rate))

\* current_salary *= 1 + salary_growth_rate
update_salary(salary, args) == Mul(salary, Add(One, args.salary_growth_rate))

----------------------------------------------------------------------------
(* The inputs the projection is run on.                                    *)

\* The longest projection of Spec spans MaxSpan + 1 years.
MaxSpan == 2

Half(k) == Q(k, 2)

NetWorths  == {Whole(-1), Zero, Whole(1), Q(9, 8)}
Salaries   == {Zero, Whole(1), Q(5, 8), Q(1, 128)}
SalaryGrowthRates == {Zero, Half(1)}
AssetGrowthRates  == {Half(-1), Zero, Q(1, 4)}
DividendYields    == {Zero, Half(1)}
TaxRates          == {Zero, Half(1), One}
ExpenseRatios     == {Half(-1), Zero, Half(1), One}
StartYears        == {2024, 2030}
EndYears(start_year) == {start_year - 5} \cup (start_year - 1)..(start_year + MaxSpan)

Args(nw, sal, sg, ag, dy, tr, er, sy, ey) ==
    [initial_net_worth |-> nw, initial_salary |-> sal, salary_growth_rate |-> sg,
     asset_growth_rate |-> ag, dividend_yield |-> dy, tax_rate |-> tr,
     expense_ratio |-> er, start_year |-> sy, end_year |-> ey]

\* The default values of main's widgets (100000, 75000, 3%, 7%, 2%, 25%, 70%),
\* for the single year 2024.
Scenario ==
    Args(Whole(100000), Whole(75000), Percent(3), Percent(7), Percent(2),
         Percent(25), Percent(70), 2024, 2024)

NoArgs == Args(Zero, Zero, Zero, Zero, Zero, Zero, Zero, 0, 0)

----------------------------------------------------------------------------
(* Specification Spec: one call of calculate_net_worth_projection.         *)

MainIdle ==
    /\ w = NoArgs
    /\ mpc = "idle"
    /\ df = <<>>
    /\ growth_i = 0
    /\ tax_i = 0
    /\ row_data = <<>>
    /\ sensitivity_data = <<>>
    /\ shown = <<>>

\* Lines 47-51: the state on entry to the loop.
Enter(args) ==
    /\ a = args
    /\ pc = "loop"
    /\ years = range(args.start_year, args.end_year)
    /\ idx = 1
    /\ data = <<>>
    /\ current_net_worth = args.initial_net_worth
    /\ current_salary = args.initial_salary

Init ==
    /\ \/ \E nw \in NetWorths, sal \in Salaries, sg \in SalaryGrowthRates,
             ag \in AssetGrowthRates, dy \in DividendYields, tr \in TaxRates,
             er \in ExpenseRatios, sy \in StartYears :
             \E ey \in EndYears(sy) : Enter(Args(nw, sal, sg, ag, dy, tr, er, sy, ey))
       \/ Enter(Scenario)
    /\ MainIdle

\* The snapshot taken after the update instead of before it.
LoopBody_snapshot_after_update ==
    /\ pc = "loop"
    /\ idx <= Len(years)
    /\ current_net_worth' =
           update_net_worth(current_net_worth,
                            year_savings(current_net_worth, current_salary, a), a)
    /\ current_salary' = update_salary(current_salary, a)
    /\ data' = Append(data, current_state(years[idx], current_net_worth',
                                          current_salary', a))
    /\ idx' = idx + 1
    /\ UNCHANGED <<a, pc, years>>
    /\ UNCHANGED mvars

\* Lines 53-90: one iteration of the loop.
LoopBody ==
    /\ pc = "loop"
    /\ idx <= Len(years)
    /\ data' = Append(data, current_state(years[idx], current_net_worth,
                                          current_salary, a))
    /\ current_net_worth' =
           update_net_worth(current_net_worth,
                            year_savings(current_net_worth, current_salary, a), a)
    /\ current_salary' = update_salary(current_salary, a)
    /\ idx' = idx + 1
    /\ UNCHANGED <<a, pc, years>>
    /\ UNCHANGED mvars

\* Line 92: the loop is exhausted, the snapshots are returned.
Return ==
    /\ pc = "loop"
    /\ idx > Len(years)
    /\ pc' = "returned"
    /\ UNCHANGED <<a, years, idx, current_net_worth, current_salary, data>>
    /\ UNCHANGED mvars

Next == LoopBody \/ Return

Spec == Init /\ [][Next]_vars

----------------------------------------------------------------------------
(* calculate_net_worth_projection as a function: the list it returns.      *)

\* The snapshots of years[i..], from the running state the loop holds when it
\* reaches year i.  The state computed after the last snapshot is never read.
RECURSIVE run_loop(_, _, _, _, _)
run_loop(args, ys, i, net_worth, salary) ==
    IF i > Len(ys) THEN <<>>
    ELSE <<current_state(ys[i], net_worth, salary, args)>> \o
         run_loop(args, ys, i + 1,
                  update_net_worth(net_worth, year_savings(net_worth, salary, args), args),
                  update_salary(salary, args))

calculate_net_worth_projection(args) ==
    run_loop(args, range(args.start_year, args.end_year), 1,
             args.initial_net_worth, args.initial_salary)

----------------------------------------------------------------------------
(* Specification MainSpec: one run of main.                                *)

\* list(range(lo, hi, step)) for step > 0.
range_step(lo, hi, step) ==
    [i \in 1..((hi - lo + step - 1) \div step) |-> lo + (i - 1) * step]

tax_rates == range_step(20, 51, 5)

growth_rates == range_step(4, 21, 2)

\* value / 100 for a widget value in percent.
per_cent(value) == Mul(value, Q(1, 100))

\* The keyword arguments of the call of line 181.
main_args(wv) ==
    Args(wv.initial_net_worth, wv.initial_salary, per_cent(wv.salary_growth_rate),
         per_cent(wv.asset_growth_rate), per_cent(wv.dividend_yield),
         per_cent(wv.tax_rate), per_cent(wv.expense_ratio),
         wv.start_year, wv.end_year)

\* The tax rate of the widget passed on instead of the grid's.
sweep_args_widget_tax(wv, growth, tax) ==
    Args(wv.initial_net_worth, wv.initial_salary, per_cent(wv.salary_growth_rate),
         per_cent(Whole(growth)), per_cent(wv.dividend_yield),
         per_cent(wv.tax_rate), per_cent(wv.expense_ratio),
         wv.start_year, wv.end_year)

\* The keyword arguments of the call of lines 239-249.
sweep_args(wv, growth, tax) ==
    Args(wv.initial_net_worth, wv.initial_salary, per_cent(wv.salary_growth_rate),
         per_cent(Whole(growth)), per_cent(wv.dividend_yield),
         per_cent(Whole(tax)), per_cent(wv.expense_ratio),
         wv.start_year, wv.end_year)

\* f"{value}%"
percent_label(value) == ToString(value) \o "%"

\* df.iloc[-1]
iloc_last(frame) == frame[Len(frame)]

\* The values the widgets can hold (in percent where the widget is in
\* percent), within each widget's min_value and max_value.  The sets are kept
\* small enough for the exact arithmetic to stay within 32-bit integers: a
\* dividend yield other than 0 is combined with a two-year projection only.
WidgetNetWorths      == {Zero, Whole(1024)}
WidgetSalaries       == {Zero, Whole(768)}
WidgetSalaryGrowths  == {Zero, Whole(3)}
WidgetAssetGrowths   == {Whole(-5), Whole(7)}
WidgetDividendYields == {Zero, Whole(2)}
WidgetTaxRates       == {Zero, Whole(25)}
WidgetExpenseRatios  == {Whole(70), Whole(100)}
WidgetStartYears     == {2026}
WidgetEndYears(start_year, dividend) ==
    IF dividend = Zero THEN {start_year + 1, start_year + 2} ELSE {start_year + 1}

FunctionIdle ==
    /\ a = NoArgs
    /\ pc = "idle"
    /\ years = <<>>
    /\ idx = 0
    /\ data = <<>>
    /\ current_net_worth = Zero
    /\ current_salary = Zero

\* Lines 105-178: the widgets hold their values.
MainInit ==
    /\ \E nw \in WidgetNetWorths, sal \in WidgetSalaries, sg \in WidgetSalaryGrowths,
          ag \in WidgetAssetGrowths, dy \in WidgetDividendYields,
          tr \in WidgetTaxRates, er \in WidgetExpenseRatios, sy \in WidgetStartYears :
          \E ey \in WidgetEndYears(sy, dy) :
              w = Args(nw, sal, sg, ag, dy, tr, er, sy, ey)
    /\ mpc = "project"
    /\ df = <<>>
    /\ growth_i = 0
    /\ tax_i = 0
    /\ row_data = <<>>
    /\ sensitivity_data = <<>>
    /\ shown = <<>>
    /\ FunctionIdle

\* Line 181: the projection for the chart and the table.
Project ==
    /\ mpc = "project"
    /\ df' = calculate_net_worth_projection(main_args(w))
    /\ mpc' = "display"
    /\ UNCHANGED <<w, growth_i, tax_i, row_data, sensitivity_data, shown>>
    /\ UNCHANGED fvars

\* Lines 194-235: the chart and the table of df are displayed (their styling is
\* the renderer's), and the sweep starts with no row.
Display ==
    /\ mpc = "display"
    /\ shown' = shown \o <<[kind |-> "chart", frame |-> df],
                           [kind |-> "table", frame |-> df]>>
    /\ sensitivity_data' = <<>>
    /\ growth_i' = 1
    /\ tax_i' = 1
    /\ row_data' = <<>>
    /\ mpc' = "sweep"
    /\ UNCHANGED <<w, df>>
    /\ UNCHANGED fvars

\* Lines 238-250: one cell of the sweep.
SweepCell ==
    /\ mpc = "sweep"
    /\ growth_i <= Len(growth_rates)
    /\ tax_i <= Len(tax_rates)
    /\ LET result == calculate_net_worth_projection(
                         sweep_args(w, growth_rates[growth_i], tax_rates[tax_i]))
       IN  row_data' = Append(row_data, iloc_last(result)["Net Worth"])
    /\ tax_i' = tax_i + 1
    /\ UNCHANGED <<w, mpc, df, growth_i, sensitivity_data, shown>>
    /\ UNCHANGED fvars

\* Line 251, and lines 236-238 of the next row: the row is complete.
SweepRow ==
    /\ mpc = "sweep"
    /\ growth_i <= Len(growth_rates)
    /\ tax_i > Len(tax_rates)
    /\ sensitivity_data' = Append(sensitivity_data, row_data)
    /\ growth_i' = growth_i + 1
    /\ IF growth_i < Len(growth_rates)
       THEN row_data' = <<>> /\ tax_i' = 1
       ELSE UNCHANGED <<row_data, tax_i>>
    /\ UNCHANGED <<w, mpc, df, shown>>
    /\ UNCHANGED fvars

\* Lines 254-262: the sensitivity table is built and displayed.
ShowSensitivity ==
    /\ mpc = "sweep"
    /\ growth_i > Len(growth_rates)
    /\ shown' = Append(shown,
                       [kind    |-> "sensitivity",
                        columns |-> [j \in 1..Len(tax_rates) |->
                                        percent_label(tax_rates[j])],
                        index   |-> [i \in 1..Len(growth_rates) |->
                                        percent_label(growth_rates[i])],
                        frame   |-> sensitivity_data])
    /\ mpc' = "summary"
    /\ UNCHANGED <<w, df, growth_i, tax_i, row_data, sensitivity_data>>
    /\ UNCHANGED fvars

\* Lines 273-298: the three metrics, each a final value and its change since
\* the first year.
Summary ==
    /\ mpc = "summary"
    /\ LET final_year == iloc_last(df)
           first_year == df[1]
           metric(column) == <<final_year[column],
                               Sub(final_year[column], first_year[column])>>
       IN  shown' = Append(shown,
                           [kind  |-> "metrics",
                            frame |-> <<metric("Net Worth"), metric("Salary"),
                                        metric("Dividend Income")>>])
    /\ mpc' = "done"
    /\ UNCHANGED <<w, df, growth_i, tax_i, row_data, sensitivity_data>>
    /\ UNCHANGED fvars

MainNext == Project \/ Display \/ SweepCell \/ SweepRow \/ ShowSensitivity \/ Summary

MainSpec == MainInit /\ [][MainNext]_vars

----------------------------------------------------------------------------
(* Properties of calculate_net_worth_projection, checked under Spec.       *)

\* The documented domain of the arguments.
ValidAssumptions(args) ==
    /\ Le(Zero, args.initial_net_worth)
    /\ Le(Zero, args.initial_salary)
    /\ Le(Zero, args.dividend_yield)
    /\ Le(Zero, args.tax_rate) /\ Lt(args.tax_rate, One)
    /\ Le(Zero, args.expense_ratio) /\ Le(args.expense_ratio, One)
    /\ args.end_year >= args.start_year

RECURSIVE Pow(_, _)
Pow(x, k) == IF k = 0 THEN One ELSE Mul(x, Pow(x, k - 1))

\* The running <<net worth, salary>> after k years of a run that rounds
\* nothing, written from the formulas of the specification.
RECURSIVE UnroundedRun(_, _)
UnroundedRun(args, k) ==
    IF k = 0 THEN <<args.initial_net_worth, args.initial_salary>>
    ELSE LET prev   == UnroundedRun(args, k - 1)
             income == Add(prev[2], Mul(prev[1], args.dividend_yield))
             saved  == Mul(Mul(income, Sub(One, args.tax_rate)),
                           Sub(One, args.expense_ratio))
         IN  <<Mul(Add(prev[1], saved), Add(One, args.asset_growth_rate)),
               Mul(prev[2], Add(One, args.salary_growth_rate))>>

\* A step of the loop: a snapshot is appended and the state advanced.
Iterates == idx' = idx + 1

\* C1: when end_year >= start_year the returned projection has exactly
\* end_year - start_year + 1 snapshots, whose years start at start_year, go up
\* by exactly 1 from each snapshot to the next and end at end_year.
C1_SnapshotCount ==
    (pc = "returned" /\ a.end_year >= a.start_year) =>
        /\ Len(data) = a.end_year - a.start_year + 1
        /\ data[1]["Year"] = a.start_year
        /\ \A i \in 1..(Len(data) - 1) : data[i + 1]["Year"] = data[i]["Year"] + 1
        /\ data[Len(data)]["Year"] = a.end_year

C1_Witness ==
    /\ pc = "returned"
    /\ a.start_year = 2024 /\ a.end_year = 2026
    /\ Len(data) = 3

C3_SnapshotIsPreUpdateState ==
    [][(Iterates /\ ValidAssumptions(a)) =>
        LET snap      == data'[Len(data')]
            dividend  == Mul(current_net_worth, a.dividend_yield)
            after_tax == Mul(Add(current_salary, dividend), Sub(One, a.tax_rate))
        IN  /\ snap["Net Worth"] = current_net_worth
            /\ snap["Salary"] = current_salary
            /\ snap["Dividend Income"] = dividend
            /\ snap["Total Income"] = Add(current_salary, dividend)
            /\ snap["After-tax Income"] = after_tax
            /\ snap["Expenses"] = Mul(after_tax, a.expense_ratio)
            /\ snap["Savings"] = Sub(after_tax, Mul(after_tax, a.expense_ratio))
            /\ Len(data) = 0 =>
                /\ snap["Net Worth"] = a.initial_net_worth
                /\ snap["Salary"] = a.initial_salary]_vars

\* C3 (amended): each snapshot carries, rounded to 2 decimals, the values of
\* the running state before the year's update and of what is derived from
\* them; the first snapshot's net worth and salary are the initial ones
\* rounded to 2 decimals.
C3_SnapshotIsRoundedPreUpdateState ==
    [][Iterates =>
        LET snap      == data'[Len(data')]
            dividend  == Mul(current_net_worth, a.dividend_yield)
            after_tax == Mul(Add(current_salary, dividend), Sub(One, a.tax_rate))
        IN  /\ Len(data') = Len(data) + 1
            /\ snap["Net Worth"] = Round2(current_net_worth)
            /\ snap["Salary"] = Round2(current_salary)
            /\ snap["Dividend Income"] = Round2(dividend)
            /\ snap["Total Income"] = Round2(Add(current_salary, dividend))
            /\ snap["After-tax Income"] = Round2(after_tax)
            /\ snap["Expenses"] = Round2(Mul(after_tax, a.expense_ratio))
            /\ snap["Savings"] =
                   Round2(Sub(after_tax, Mul(after_tax, a.expense_ratio)))
            /\ Len(data) = 0 =>
                /\ snap["Net Worth"] = Round2(a.initial_net_worth)
                /\ snap["Salary"] = Round2(a.initial_salary)]_vars

C3_Witness ==
    /\ Len(data) >= 2
    /\ a.initial_net_worth = Q(9, 8)
    /\ data[1]["Net Worth"] = Q(112, 100)
    /\ data[1]["Salary"] = a.initial_salary
    /\ data[2]["Net Worth"] # data[1]["Net Worth"]

C7_SalaryStrictlyIncreasing ==
    (ValidAssumptions(a) /\ Lt(Zero, a.salary_growth_rate)) =>
        \A i \in 1..(Len(data) - 1) : Lt(data[i]["Salary"], data[i + 1]["Salary"])

\* C7 (amended): with valid arguments and salary_growth_rate > 0 the salary of
\* a snapshot is never less than that of the snapshot before it; the running
\* (unrounded) salary strictly increases from year to year when
\* initial_salary > 0 and stays 0 when initial_salary = 0.
C7_SalaryNeverDecreases ==
    [][(Iterates /\ ValidAssumptions(a) /\ Lt(Zero, a.salary_growth_rate)) =>
        /\ Lt(Zero, a.initial_salary) => Lt(current_salary, current_salary')
        /\ a.initial_salary = Zero => current_salary' = Zero
        /\ Len(data) >= 1 =>
               Le(data[Len(data)]["Salary"], data'[Len(data')]["Salary"])]_vars

C7_Witness ==
    /\ ValidAssumptions(a)
    /\ Lt(Zero, a.salary_growth_rate)
    /\ Lt(Zero, a.initial_salary)
    /\ Len(data) = 3
    /\ data[1]["Salary"] = data[2]["Salary"]
    /\ Lt(data[2]["Salary"], data[3]["Salary"])

\* C8 (as claimed): with valid arguments and salary_growth_rate =
\* asset_growth_rate = dividend_yield = 0 the salary is the same in all
\* snapshots and the net worth of each snapshot is strictly greater than that
\* of the snapshot before it, by exactly that snapshot's savings.
C8_ZeroRateIdentity ==
    (/\ ValidAssumptions(a)
     /\ a.salary_growth_rate = Zero
     /\ a.asset_growth_rate = Zero
     /\ a.dividend_yield = Zero) =>
        \A i \in 1..(Len(data) - 1) :
            /\ data[i + 1]["Salary"] = data[i]["Salary"]
            /\ Lt(data[i]["Net Worth"], data[i + 1]["Net Worth"])
            /\ data[i + 1]["Net Worth"] =
                   Add(data[i]["Net Worth"], data[i]["Savings"])

\* C8 (amended): with valid arguments and salary_growth_rate =
\* asset_growth_rate = dividend_yield = 0 the salary is the same in all
\* snapshots and the running (unrounded) net worth grows each year by exactly
\* that year's unrounded savings, initial_salary * (1 - tax_rate) *
\* (1 - expense_ratio), with no compounding: it strictly increases when these
\* savings are positive and stays the same when they are 0.  The net worth
\* of a snapshot is never less than that of the snapshot before it.
C8_ZeroRateRunningIdentity ==
    [][(/\ Iterates
        /\ ValidAssumptions(a)
        /\ a.salary_growth_rate = Zero
        /\ a.asset_growth_rate = Zero
        /\ a.dividend_yield = Zero) =>
        LET saved == Mul(Mul(a.initial_salary, Sub(One, a.tax_rate)),
                         Sub(One, a.expense_ratio))
        IN  /\ current_salary' = current_salary
            /\ current_net_worth' = Add(current_net_worth, saved)
            /\ Lt(Zero, saved) <=> Lt(current_net_worth, current_net_worth')
            /\ Le(Zero, saved)
            /\ Len(data) >= 1 =>
                /\ data'[Len(data')]["Salary"] = data[Len(data)]["Salary"]
                /\ Le(data[Len(data)]["Net Worth"], data'[Len(data')]["Net Worth"])]_vars

C8_Witness ==
    /\ ValidAssumptions(a)
    /\ a.salary_growth_rate = Zero
    /\ a.asset_growth_rate = Zero
    /\ a.dividend_yield = Zero
    /\ Len(data) = 3
    /\ Lt(data[1]["Net Worth"], data[2]["Net Worth"])
    /\ data[3]["Net Worth"] # Add(data[2]["Net Worth"], data[2]["Savings"])

\* C9 (as claimed), for initial values in whole cents: with valid arguments and
\* expense_ratio = 1 the savings of every snapshot are 0 and the net worth of
\* each snapshot is that of the snapshot before it times
\* (1 + asset_growth_rate).
C9_FullExpense ==
    (/\ ValidAssumptions(a)
     /\ a.expense_ratio = One
     /\ Round2(a.initial_net_worth) = a.initial_net_worth
     /\ Round2(a.initial_salary) = a.initial_salary) =>
        /\ \A i \in 1..Len(data) : data[i]["Savings"] = Zero
        /\ \A i \in 1..(Len(data) - 1) :
               data[i + 1]["Net Worth"] =
                   Mul(data[i]["Net Worth"], Add(One, a.asset_growth_rate))

\* C9 (amended): with valid arguments and expense_ratio = 1 the savings of
\* every snapshot are 0 and the running (unrounded) net worth changes only by
\* the growth multiplier, so that after k years it is initial_net_worth *
\* (1 + asset_growth_rate)^k; the net worth of snapshot k + 1 is that value
\* rounded to 2 decimals.
C9_FullExpenseRunning ==
    (ValidAssumptions(a) /\ a.expense_ratio = One) =>
        /\ current_net_worth =
               Mul(a.initial_net_worth, Pow(Add(One, a.asset_growth_rate), Len(data)))
        /\ \A i \in 1..Len(data) :
            /\ data[i]["Savings"] = Zero
            /\ data[i]["Net Worth"] =
                   Round2(Mul(a.initial_net_worth,
                              Pow(Add(One, a.asset_growth_rate), i - 1)))

C9_Witness ==
    /\ ValidAssumptions(a)
    /\ a.expense_ratio = One
    /\ a.initial_net_worth = One
    /\ Lt(Zero, a.initial_salary)
    /\ Len(data) = 3
    /\ data[2]["Net Worth"] # data[1]["Net Worth"]
    /\ data[3]["Net Worth"] #
           Mul(data[2]["Net Worth"], Add(One, a.asset_growth_rate))

\* C10: rounding touches only the copies stored in the snapshots: after every
\* iteration the running net worth and salary are those of a run that rounds
\* nothing.
C10_RunningStateUnrounded ==
    /\ current_net_worth = UnroundedRun(a, Len(data))[1]
    /\ current_salary = UnroundedRun(a, Len(data))[2]

C10_Witness ==
    /\ Len(data) = 3
    /\ data[2]["Net Worth"] # UnroundedRun(a, 1)[1]
    /\ data[2]["Savings"] # Zero
    /\ Round2(current_net_worth) # current_net_worth
    /\ Round2(current_salary) # current_salary

----------------------------------------------------------------------------
(* Properties of main's sensitivity sweep, checked under MainSpec.         *)

\* The net worth of the last snapshot of the projection that starts from the
\* widgets' values with the given growth and tax rates, in percent.
FinalNetWorth(wv, growth, tax) ==
    Round2(UnroundedRun(
               Args(wv.initial_net_worth, wv.initial_salary,
                    Q(wv.salary_growth_rate.n, 100 * wv.salary_growth_rate.d),
                    Q(growth, 100),
                    Q(wv.dividend_yield.n, 100 * wv.dividend_yield.d),
                    Q(tax, 100),
                    Q(wv.expense_ratio.n, 100 * wv.expense_ratio.d),
                    wv.start_year, wv.end_year),
               wv.end_year - wv.start_year)[1])

\* C5: the sensitivity table has one row per growth rate and one column per
\* tax rate, in the order of the grids, and cell [i][j] is the net worth of
\* the last snapshot of a full projection with asset_growth_rate =
\* growth_rates[i], tax_rate = tax_rates[j] and every other argument as the
\* widgets give it.
C5_SweepTable ==
    /\ \A i \in 1..Len(sensitivity_data) :
        /\ Len(sensitivity_data[i]) = Len(tax_rates)
        /\ \A j \in 1..Len(tax_rates) :
               sensitivity_data[i][j] =
                   FinalNetWorth(w, growth_rates[i], tax_rates[j])
    /\ \A k \in 1..Len(shown) :
           shown[k].kind = "sensitivity" =>
               /\ shown[k].frame = sensitivity_data
               /\ Len(shown[k].frame) = Len(growth_rates)
               /\ Len(shown[k].index) = Len(growth_rates)
               /\ Len(shown[k].columns) = Len(tax_rates)
               /\ shown[k].index[1] = "4%" /\ shown[k].index[9] = "20%"
               /\ shown[k].columns[1] = "20%" /\ shown[k].columns[7] = "50%"

C5_Witness ==
    /\ mpc = "done"
    /\ Len(shown) = 4
    /\ shown[3].kind = "sensitivity"
    /\ Len(shown[3].frame) = 9
    /\ Len(shown[3].frame[9]) = 7
    /\ shown[3].frame[1][1] # shown[3].frame[1][2]
    /\ shown[3].frame[1][1] # shown[3].frame[2][1]
    /\ w.end_year = w.start_year + 2

====
